---- MODULE Spec2Model ----
(***************************************************************************)
(* ChaincodeSupport (core/chaincode/chaincode_support.go): launching a     *)
(* chaincode, dispatching a request to its registered handler and          *)
(* interpreting the handler's answer.                                      *)
(*                                                                         *)
(* Every process of Procs is one caller performing one Execute or          *)
(* ExecuteInit call.  Two calls are sequential when one is "done" before   *)
(* the other leaves "idle", and concurrent otherwise.  The HandlerRegistry,*)
(* the RuntimeLauncher and Handler.Execute are collaborators of the file;  *)
(* they are modelled by their contract.                                    *)
(***************************************************************************)
EXTENDS Integers, Sequences, FiniteSets, TLC

\* ------------------------------------------------------------------ bounds
NumProcs == 2

Procs == 1..NumProcs
Names == {"a", "b"}
Versions == {1, 2}
\* Caller p runs transaction TxIDOf(p) on channel ChainIDOf(p); no channel id
\* is a transaction id.
TxIDOf(p) == p
ChainIDOf(p) == NumProcs + p

\* The name of a deployment spec that carries no ChaincodeSpec.
NoName == ""
\* spec.GetChaincodeSpec() of the call: a chaincode name, or NoName when nil.
SpecNames == Names \cup {NoName}

\* ------------------------------------------------------------- data model
\* CCContext.GetCanonicalName: the registry key, name and version.
CanonicalName(name, version) == <<name, version>>

CNames == SpecNames \X Versions

\* Handler identities; NoHandler is the nil *Handler.
NoHandler == 0

\* error values: the chain of messages and the bytes formatted into the text.
NoErr == [msgs |-> <<>>, bytes |-> <<>>]
ErrorsNew(m) == [msgs |-> m, bytes |-> <<>>]
\* errors.Wrapf / errors.WithMessage: the message is put in front of the cause.
ErrorsWrap(err, m) == [msgs |-> m \o err.msgs, bytes |-> err.bytes]

\* pb.ChaincodeEvent pointer
NilEvent == [isNil |-> TRUE, ChaincodeId |-> "", TxId |-> 0]
Event(ccid, txid) == [isNil |-> FALSE, ChaincodeId |-> ccid, TxId |-> txid]
\* The events a unit may attach to its answer, the fields as the unit set them.
Events == {NilEvent, Event("a", 1), Event("b", 2)}

\* pb.Response pointer
NilResponse == [isNil |-> TRUE, Status |-> 0]
Response(s) == [isNil |-> FALSE, Status |-> s]

\* payload bytes a unit may send
Payloads == { <<>>, <<8, 200, 1>>, <<8, 200>> }

\* pb.ChaincodeMessage pointer
NilMessage ==
  [isNil |-> TRUE, Type |-> "UNDEFINED", Payload |-> <<>>, Txid |-> 0,
   ChannelId |-> 0, ChaincodeEvent |-> NilEvent]

Message(type, payload, txid, cid, event) ==
  [isNil |-> FALSE, Type |-> type, Payload |-> payload, Txid |-> txid,
   ChannelId |-> cid, ChaincodeEvent |-> event]

\* proto.Unmarshal(payload, &pb.Response{}): field 1 (tag byte 8) is the
\* status, a varint of one or two bytes; no bytes decode to the zero value.
Unmarshal(payload) ==
  IF Len(payload) = 0
    THEN [err |-> NoErr, res |-> Response(0)]
  ELSE IF Len(payload) = 2 /\ payload[1] = 8 /\ payload[2] < 128
    THEN [err |-> NoErr, res |-> Response(payload[2])]
  ELSE IF Len(payload) = 3 /\ payload[1] = 8 /\ payload[2] >= 128 /\ payload[3] < 128
    THEN [err |-> NoErr, res |-> Response((payload[2] - 128) + 128 * payload[3])]
  ELSE [err |-> ErrorsNew(<<"proto: cannot parse">>), res |-> Response(0)]

\* proto.Marshal of the ChaincodeInput: field 1 repeats the arguments, and the
\* model's calls carry none.
Marshal(input) == input

\* createCCMessage with the channel id and the transaction id swapped.
createCCMessageSwapped(messageType, cid, txid, cMsg) ==
  Message(messageType, Marshal(cMsg), cid, txid, NilEvent)

\* createCCMessage creates a transaction message.
createCCMessage(messageType, cid, txid, cMsg) ==
  Message(messageType, Marshal(cMsg), txid, cid, NilEvent)

\* ------------------------------------------------------- pure functions
RespTypes == {"COMPLETED", "ERROR", "GET_STATE"}

\* What a unit may answer to the request of transaction txid on channel cid.
Responses(txid, cid) ==
  {NilMessage} \cup
  { Message(ty, pl, txid, cid, ev) : ty \in RespTypes, pl \in Payloads, ev \in Events }

\* The event left unstamped: the fields stay as the unit set them.
stampEventNot(cccid, resp) == resp.ChaincodeEvent

\* processChaincodeExecutionResult, lines 223-226: an event of the message
\* gets the context's name and transaction id.
stampEvent(cccid, resp) ==
  IF resp.ChaincodeEvent.isNil
    THEN NilEvent
    ELSE Event(cccid.Name, cccid.TxID)

\* The ERROR case with a fixed text, the payload left out.
errorResultNoPayload(resp, event) ==
  [resp |-> NilResponse, event |-> event,
   err |-> ErrorsNew(<<"transaction returned with failure">>)]

\* processChaincodeExecutionResult, lines 237-238: the ERROR case.
errorResult(resp, event) ==
  [resp |-> NilResponse, event |-> event,
   err |-> [msgs |-> <<"transaction returned with failure">>, bytes |-> resp.Payload]]

\* The default case returning no error.
defaultResultNoError(cccid, resp) ==
  [resp |-> NilResponse, event |-> NilEvent, err |-> NoErr]

\* processChaincodeExecutionResult, lines 240-241: any other message type.
defaultResult(cccid, resp) ==
  [resp |-> NilResponse, event |-> NilEvent,
   err |-> ErrorsNew(<<"unexpected response type", resp.Type, ToString(cccid.TxID)>>)]

\* processChaincodeExecutionResult: the (response, event, error) of Execute.
processChaincodeExecutionResult(cccid, resp, err) ==
  IF err # NoErr
    THEN [resp |-> NilResponse, event |-> NilEvent,
          err |-> ErrorsWrap(err, <<"failed to execute transaction", ToString(cccid.TxID)>>)]
  ELSE IF resp.isNil
    THEN [resp |-> NilResponse, event |-> NilEvent,
          err |-> ErrorsNew(<<"nil response from transaction", ToString(cccid.TxID)>>)]
  ELSE
    LET event == stampEvent(cccid, resp)
    IN CASE resp.Type = "COMPLETED" ->
              LET u == Unmarshal(resp.Payload)
              IN IF u.err # NoErr
                   THEN [resp |-> NilResponse, event |-> NilEvent,
                         err |-> ErrorsWrap(u.err, <<"failed to unmarshal response for transaction",
                                                     ToString(cccid.TxID)>>)]
                   ELSE [resp |-> u.res, event |-> event, err |-> NoErr]
         [] resp.Type = "ERROR" -> errorResult(resp, event)
         [] OTHER -> defaultResult(cccid, resp)

\* LaunchInit: the container info comes from the deployment spec and takes
\* the context's version.
LaunchInitCCCI(cccid) == CanonicalName(cccid.spec, cccid.Version)

\* Launch: the container info is what Lifecycle.ChaincodeContainerInfo
\* answered for (cccid.ChainID, chaincodeName); version is the answer's.
LaunchCCCI(cccid, version) == CanonicalName(cccid.spec, version)

\* execute using a handler it remembers when the registry has none.
executeHandlerRemembered(reg, cccid) ==
  IF reg[CanonicalName(cccid.Name, cccid.Version)] = NoHandler
    THEN 1
    ELSE reg[CanonicalName(cccid.Name, cccid.Version)]

\* execute, lines 298-302: the handler of the context's canonical name.
executeHandler(reg, cccid) == reg[CanonicalName(cccid.Name, cccid.Version)]

\* execute, lines 304-309: what execute returns for handler.Execute's answer.
executeReturns(ccresp, err) ==
  IF err # NoErr
    THEN [msg |-> NilMessage, err |-> ErrorsWrap(err, <<"error sending">>)]
    ELSE [msg |-> ccresp, err |-> NoErr]

\* The message type Invoke and InvokeInit build.
cctyp(kind) == IF kind = "init" THEN "INIT" ELSE "TRANSACTION"

\* ------------------------------------------------------------------ state
VARIABLES
  registry,    \* HandlerRegistry: canonical name -> handler, NoHandler if none
  launching,   \* Launcher: the canonical names with a Start in flight
  starts,      \* Runtime.Start invocations per canonical name
  nhandlers,   \* handlers created so far by HandleChaincodeStream
  pc,          \* each caller's position
  call,        \* each caller's arguments: kind, cccid, spec
  target,      \* the canonical name of the ccci a caller gave to the Launcher
  held,        \* the handler a caller got from its lookup in execute
  sent,        \* the message a caller passed to handler.Execute
  cancelled,   \* whether the caller's context was cancelled
  answer,      \* what handler.Execute returned to the caller
  result,      \* what Execute / ExecuteInit returned
  \* history, read by the properties only
  trig,        \* whether the caller's Launcher call triggered Runtime.Start
  peers,       \* the callers that were in Launch for the same canonical name,
               \* no handler registered, when this caller entered Launch
  earlier,     \* the callers whose call had returned when this caller's began
  lastFailed   \* the canonical names whose latest Start failed or timed out

shared == <<registry, launching, starts, nhandlers, lastFailed>>
vars == <<registry, launching, starts, nhandlers, pc, call, target, held, sent,
          cancelled, answer, result, trig, peers, earlier, lastFailed>>

NoCall == [kind |-> "none", Name |-> NoName, Version |-> 0, TxID |-> 0, ChainID |-> 0,
           spec |-> NoName]
NoTarget == <<NoName, 0>>
NoResult == [resp |-> NilResponse, event |-> NilEvent, err |-> NoErr]
NoAnswer == [msg |-> NilMessage, err |-> NoErr]

cname(p) == CanonicalName(call[p].Name, call[p].Version)

Init ==
  /\ registry = [c \in CNames |-> NoHandler]
  /\ launching = {}
  /\ starts = [c \in CNames |-> 0]
  /\ nhandlers = 0
  /\ pc = [p \in Procs |-> "idle"]
  /\ call = [p \in Procs |-> NoCall]
  /\ target = [p \in Procs |-> NoTarget]
  /\ held = [p \in Procs |-> NoHandler]
  /\ sent = [p \in Procs |-> NilMessage]
  /\ cancelled = [p \in Procs |-> FALSE]
  /\ answer = [p \in Procs |-> NoAnswer]
  /\ result = [p \in Procs |-> NoResult]
  /\ trig = [p \in Procs |-> FALSE]
  /\ peers = [p \in Procs |-> {}]
  /\ earlier = [p \in Procs |-> {}]
  /\ lastFailed = {}

\* Execute / ExecuteInit returning after Invoke / InvokeInit failed with err.
Failed(p, c, err) ==
  /\ pc' = [pc EXCEPT ![p] = "done"]
  /\ result' = [result EXCEPT ![p] = processChaincodeExecutionResult(c, NilMessage, err)]

\* ------------------------------------------------------------- Launcher
\* Launcher.Launch(ccci) called by p for the canonical name c: a registered
\* handler is success at once; a Start in flight is joined; otherwise this
\* call triggers Runtime.Start and waits for it to resolve.
LauncherLaunch(p, c) ==
  /\ target' = [target EXCEPT ![p] = c]
  /\ IF registry[c] # NoHandler
       THEN /\ pc' = [pc EXCEPT ![p] = "launched"]
            /\ UNCHANGED <<launching, starts, trig, lastFailed>>
     ELSE IF c \in launching
       THEN /\ pc' = [pc EXCEPT ![p] = "waitLaunch"]
            /\ UNCHANGED <<launching, starts, trig, lastFailed>>
     ELSE /\ pc' = [pc EXCEPT ![p] = "waitLaunch"]
          /\ launching' = launching \cup {c}
          /\ starts' = [starts EXCEPT ![c] = @ + 1]
          /\ trig' = [trig EXCEPT ![p] = TRUE]
          /\ lastFailed' = lastFailed \ {c}

\* The callers blocked in Launcher.Launch on the Start of c.
Waiters(c) == {p \in Procs : pc[p] = "waitLaunch" /\ target[p] = c}

\* The Start of c resolved with err: every waiter's Launch returns err, and
\* Invoke / InvokeInit return it (lines 248-251, 278-281).
LaunchFailed(c, err) ==
  /\ c \in launching
  /\ launching' = launching \ {c}
  /\ lastFailed' = lastFailed \cup {c}
  /\ pc' = [p \in Procs |-> IF p \in Waiters(c) THEN "done" ELSE pc[p]]
  /\ result' = [p \in Procs |->
                  IF p \in Waiters(c)
                    THEN processChaincodeExecutionResult(call[p], NilMessage, err)
                    ELSE result[p]]
  /\ UNCHANGED <<registry, starts, nhandlers, call, target, held, sent, cancelled,
                 answer, trig, peers, earlier>>

\* Runtime.Start reports failure.
RuntimeStartFails(c) ==
  LaunchFailed(c, ErrorsNew(<<"error starting container">>))

\* The startup timeout elapses before the unit registered.
StartupTimeout(c) ==
  LaunchFailed(c, ErrorsNew(<<"timeout expired while starting chaincode">>))

\* HandleChaincodeStream: the started unit connects back, its new handler
\* registers under the unit's canonical name, and the launch is ready.
HandleChaincodeStream(c) ==
  /\ c \in launching
  /\ registry[c] = NoHandler
  /\ nhandlers' = nhandlers + 1
  /\ registry' = [registry EXCEPT ![c] = nhandlers + 1]
  /\ launching' = launching \ {c}
  /\ pc' = [p \in Procs |-> IF p \in Waiters(c) THEN "launched" ELSE pc[p]]
  /\ UNCHANGED <<starts, call, target, held, sent, cancelled, answer, result,
                 trig, peers, earlier, lastFailed>>

\* Stop stops a chaincode if running: its stream ends and its handler
\* deregisters.
Stop(c) ==
  /\ registry[c] # NoHandler
  /\ registry' = [registry EXCEPT ![c] = NoHandler]
  /\ UNCHANGED <<launching, starts, nhandlers, pc, call, target, held, sent,
                 cancelled, answer, result, trig, peers, earlier, lastFailed>>

\* ------------------------------------------------------------- callers
CallsOf(p, kind) ==
  { [kind |-> kind, Name |-> n, Version |-> v, TxID |-> TxIDOf(p), ChainID |-> ChainIDOf(p),
      spec |-> s] :
      n \in Names, v \in Versions, s \in SpecNames }

\* The callers inside Launch / LaunchInit for the canonical name c.
InLaunch(c) == {q \in Procs : pc[q] \in {"launch", "waitLaunch"} /\ cname(q) = c}

\* Launch deciding "already running" from the names it has started before,
\* not from the registry.
AlreadyRunningCached(reg, cccid) ==
  \/ reg[CanonicalName(cccid.Name, cccid.Version)] # NoHandler
  \/ starts[CanonicalName(cccid.Name, cccid.Version)] > 0

\* Launch / LaunchInit, first lines: is a handler registered under the
\* context's canonical name?
AlreadyRunning(reg, cccid) ==
  reg[CanonicalName(cccid.Name, cccid.Version)] # NoHandler

\* Launch / LaunchInit remembering a launch that succeeded: success at once
\* also when the latest Start of the name registered a handler.
LaunchEnterRemembersLaunch(p, c) ==
  IF \/ AlreadyRunning(registry, c)
     \/ LET cn == CanonicalName(c.Name, c.Version)
        IN starts[cn] > 0 /\ cn \notin launching /\ cn \notin lastFailed
    THEN /\ pc' = [pc EXCEPT ![p] = "launched"]
         /\ UNCHANGED peers
    ELSE /\ pc' = [pc EXCEPT ![p] = "launch"]
         /\ peers' = [peers EXCEPT ![p] = InLaunch(CanonicalName(c.Name, c.Version))]

\* Launch / LaunchInit without the first check: every call goes on to the
\* launch.
LaunchEnterNoFastPath(p, c) ==
  /\ pc' = [pc EXCEPT ![p] = "launch"]
  /\ peers' = [peers EXCEPT ![p] = InLaunch(CanonicalName(c.Name, c.Version))]

\* Launch / LaunchInit, lines 114-118 and 129-133: success at once when a
\* handler is registered under the context's canonical name.
LaunchEnter(p, c) ==
  IF AlreadyRunning(registry, c)
    THEN /\ pc' = [pc EXCEPT ![p] = "launched"]
         /\ UNCHANGED peers
    ELSE /\ pc' = [pc EXCEPT ![p] = "launch"]
         /\ peers' = [peers EXCEPT ![p] = InLaunch(CanonicalName(c.Name, c.Version))]

\* Execute -> Invoke (lines 270-281) -> Launch (lines 129-133).
ExecuteOf(p, calls) ==
  /\ pc[p] = "idle"
  /\ \A q \in Procs : q < p => pc[q] # "idle"
  /\ earlier' = [earlier EXCEPT ![p] = {q \in Procs : pc[q] = "done"}]
  /\ \E c \in calls :
       /\ call' = [call EXCEPT ![p] = c]
       /\ IF c.spec = NoName
            THEN /\ Failed(p, c, ErrorsNew(<<"chaincode spec is nil">>))
                 /\ UNCHANGED peers
            ELSE /\ LaunchEnter(p, c)
                 /\ UNCHANGED result
  /\ UNCHANGED <<shared, target, held, sent, cancelled, answer, trig>>

Execute(p) == ExecuteOf(p, CallsOf(p, "invoke"))

\* ExecuteInit -> InvokeInit (lines 245-248) -> LaunchInit (lines 114-118).
ExecuteInitOf(p, calls) ==
  /\ pc[p] = "idle"
  /\ \A q \in Procs : q < p => pc[q] # "idle"
  /\ earlier' = [earlier EXCEPT ![p] = {q \in Procs : pc[q] = "done"}]
  /\ \E c \in calls :
       /\ call' = [call EXCEPT ![p] = c]
       /\ LaunchEnter(p, c)
  /\ UNCHANGED <<shared, target, held, sent, cancelled, answer, result, trig>>

ExecuteInit(p) == ExecuteInitOf(p, CallsOf(p, "init"))

\* Launch calling Runtime.Start itself instead of the Launcher.
LaunchStartsDirectly(p) ==
  /\ pc[p] = "launch"
  /\ call[p].kind = "invoke"
  /\ \E v \in Versions :
       LET c == LaunchCCCI(call[p], v)
       IN /\ target' = [target EXCEPT ![p] = c]
          /\ launching' = launching \cup {c}
          /\ starts' = [starts EXCEPT ![c] = @ + 1]
          /\ trig' = [trig EXCEPT ![p] = TRUE]
          /\ lastFailed' = lastFailed \ {c}
          /\ pc' = [pc EXCEPT ![p] = "waitLaunch"]
  /\ UNCHANGED <<registry, nhandlers, call, held, sent, cancelled, answer, result,
                 peers, earlier>>

\* Launch calling the Launcher before it asks Lifecycle: a failed resolution
\* is returned after the launch was triggered.
LaunchBeforeResolution(p) ==
  /\ pc[p] = "launch"
  /\ call[p].kind = "invoke"
  /\ \/ /\ \E v \in Versions :
             LET c == LaunchCCCI(call[p], v)
             IN /\ target' = [target EXCEPT ![p] = c]
                /\ IF registry[c] # NoHandler \/ c \in launching
                     THEN UNCHANGED <<launching, starts, trig, lastFailed>>
                     ELSE /\ launching' = launching \cup {c}
                          /\ starts' = [starts EXCEPT ![c] = @ + 1]
                          /\ trig' = [trig EXCEPT ![p] = TRUE]
                          /\ lastFailed' = lastFailed \ {c}
        /\ Failed(p, call[p], ErrorsNew(<<"failed to get chaincode container info">>))
     \/ /\ \E v \in Versions : LauncherLaunch(p, LaunchCCCI(call[p], v))
        /\ UNCHANGED result
  /\ UNCHANGED <<registry, nhandlers, call, held, sent, cancelled, answer, peers, earlier>>

\* Launch, lines 135-149: Lifecycle answers with the container info or fails.
Launch(p) ==
  /\ pc[p] = "launch"
  /\ call[p].kind = "invoke"
  /\ \/ /\ Failed(p, call[p], ErrorsNew(<<"failed to get chaincode container info">>))
        /\ UNCHANGED <<launching, starts, target, trig, lastFailed>>
     \/ /\ \E v \in Versions : LauncherLaunch(p, LaunchCCCI(call[p], v))
        /\ UNCHANGED result
  /\ UNCHANGED <<registry, nhandlers, call, held, sent, cancelled, answer, peers, earlier>>

\* LaunchInit resolving the container info through Lifecycle as Launch does.
LaunchInitViaLifecycle(p) ==
  /\ pc[p] = "launch"
  /\ call[p].kind = "init"
  /\ \E v \in Versions : LauncherLaunch(p, LaunchCCCI(call[p], v))
  /\ UNCHANGED <<registry, nhandlers, call, held, sent, cancelled, answer, result, peers, earlier>>

\* LaunchInit, lines 120-123.
LaunchInit(p) ==
  /\ pc[p] = "launch"
  /\ call[p].kind = "init"
  /\ LauncherLaunch(p, LaunchInitCCCI(call[p]))
  /\ UNCHANGED <<registry, nhandlers, call, held, sent, cancelled, answer, result, peers, earlier>>

\* execute waiting for a handler to appear instead of failing when the
\* registry has none.
executeWaitsForHandler(p) ==
  /\ pc[p] = "launched"
  /\ IF call[p].kind = "init" /\ call[p].spec = NoName
       THEN /\ Failed(p, call[p], ErrorsNew(<<"chaincode spec is nil">>))
            /\ UNCHANGED held
     ELSE /\ executeHandler(registry, call[p]) # NoHandler
          /\ held' = [held EXCEPT ![p] = executeHandler(registry, call[p])]
          /\ pc' = [pc EXCEPT ![p] = "execCall"]
          /\ UNCHANGED result
  /\ UNCHANGED <<shared, call, target, sent, cancelled, answer, trig, peers, earlier>>

\* After the launch: InvokeInit's nil check (lines 253-256), the message
\* (lines 258-263, 283-288) and execute's lookup (lines 294-302).
execute(p) ==
  /\ pc[p] = "launched"
  /\ IF call[p].kind = "init" /\ call[p].spec = NoName
       THEN /\ Failed(p, call[p], ErrorsNew(<<"chaincode spec is nil">>))
            /\ UNCHANGED held
     ELSE IF executeHandler(registry, call[p]) = NoHandler
       THEN /\ Failed(p, call[p], ErrorsNew(<<"unable to invoke chaincode", call[p].Name>>))
            /\ UNCHANGED held
     ELSE /\ held' = [held EXCEPT ![p] = executeHandler(registry, call[p])]
          /\ pc' = [pc EXCEPT ![p] = "execCall"]
          /\ UNCHANGED result
  /\ UNCHANGED <<shared, call, target, sent, cancelled, answer, trig, peers, earlier>>

\* execute giving handler.Execute a context of its own, never cancelled.
handlerContextBackground(p) == FALSE

\* execute, line 304: the context handler.Execute is given is the caller's.
handlerContext(p) == cancelled[p]

\* execute, line 304: handler.Execute is called with the message.
handlerExecute(p) ==
  /\ pc[p] = "execCall"
  /\ sent' = [sent EXCEPT ![p] =
       createCCMessage(cctyp(call[p].kind), call[p].ChainID, call[p].TxID, <<>>)]
  /\ pc' = [pc EXCEPT ![p] = "execWait"]
  /\ UNCHANGED <<shared, call, target, held, cancelled, answer, result, trig, peers, earlier>>

\* The caller's context is cancelled while handler.Execute waits.
ContextCancelled(p) ==
  /\ pc[p] = "execWait"
  /\ ~cancelled[p]
  /\ cancelled' = [cancelled EXCEPT ![p] = TRUE]
  /\ UNCHANGED <<shared, pc, call, target, held, sent, answer, result, trig, peers, earlier>>

\* Handler.Execute's answers to the request msg: the unit's terminal message,
\* or the error of the execute timeout; once the context is cancelled, the
\* cancellation error and nothing else (a later completion is discarded).
HandlerAnswers(msg, ctxCancelled) ==
  IF ctxCancelled
    THEN { [msg |-> NilMessage, err |-> ErrorsNew(<<"context canceled">>)] }
    ELSE { [msg |-> m, err |-> NoErr] : m \in Responses(msg.Txid, msg.ChannelId) }
         \cup { [msg |-> NilMessage,
                 err |-> ErrorsNew(<<"timeout expired while executing transaction">>)] }

\* execute calling handler.Execute again when it returned an error.
executeReturnRetries(p, answers) ==
  /\ pc[p] = "execWait"
  /\ \E a \in HandlerAnswers(sent[p], handlerContext(p)) \cap answers :
       /\ answer' = [answer EXCEPT ![p] = a]
       /\ IF a.err # NoErr
            THEN /\ pc' = [pc EXCEPT ![p] = "execCall"]
                 /\ UNCHANGED result
            ELSE /\ LET r == executeReturns(a.msg, a.err)
                    IN result' = [result EXCEPT ![p] =
                                    processChaincodeExecutionResult(call[p], r.msg, r.err)]
                 /\ pc' = [pc EXCEPT ![p] = "done"]
  /\ UNCHANGED <<shared, call, target, held, sent, cancelled, trig, peers, earlier>>

\* handler.Execute returns; execute, lines 304-309, and
\* processChaincodeExecutionResult.
executeReturnOf(p, answers) ==
  /\ pc[p] = "execWait"
  /\ \E a \in HandlerAnswers(sent[p], handlerContext(p)) \cap answers :
       /\ answer' = [answer EXCEPT ![p] = a]
       /\ LET r == executeReturns(a.msg, a.err)
          IN result' = [result EXCEPT ![p] =
                          processChaincodeExecutionResult(call[p], r.msg, r.err)]
  /\ pc' = [pc EXCEPT ![p] = "done"]
  /\ UNCHANGED <<shared, call, target, held, sent, cancelled, trig, peers, earlier>>

executeReturn(p) == executeReturnOf(p, HandlerAnswers(sent[p], handlerContext(p)))

Next ==
  \/ \E p \in Procs : Execute(p)
  \/ \E p \in Procs : ExecuteInit(p)
  \/ \E p \in Procs : Launch(p)
  \/ \E p \in Procs : LaunchInit(p)
  \/ \E p \in Procs : execute(p)
  \/ \E p \in Procs : handlerExecute(p)
  \/ \E p \in Procs : ContextCancelled(p)
  \/ \E p \in Procs : executeReturn(p)
  \/ \E c \in CNames : RuntimeStartFails(c)
  \/ \E c \in CNames : StartupTimeout(c)
  \/ \E c \in CNames : HandleChaincodeStream(c)
  \/ \E c \in CNames : Stop(c)

Spec == Init /\ [][Next]_vars

\* The calls and answers of the liveness specification: one chaincode name,
\* both versions, and one answer of each kind.
LiveCalls(p, kind) ==
  {c \in CallsOf(p, kind) : c.Name = "a" /\ c.spec \in {"a", NoName}}

LiveAnswers(p) ==
  {a \in HandlerAnswers(sent[p], handlerContext(p)) :
     a.msg.isNil \/ (a.msg.Payload = <<8, 200, 1>> /\ a.msg.ChaincodeEvent = Event("b", 2))}

LiveExecute(p) == ExecuteOf(p, LiveCalls(p, "invoke"))
LiveExecuteInit(p) == ExecuteInitOf(p, LiveCalls(p, "init"))
LiveExecuteReturn(p) == executeReturnOf(p, LiveAnswers(p))

LiveNext ==
  \/ \E p \in Procs : LiveExecute(p)
  \/ \E p \in Procs : LiveExecuteInit(p)
  \/ \E p \in Procs : Launch(p)
  \/ \E p \in Procs : LaunchInit(p)
  \/ \E p \in Procs : execute(p)
  \/ \E p \in Procs : handlerExecute(p)
  \/ \E p \in Procs : ContextCancelled(p)
  \/ \E p \in Procs : LiveExecuteReturn(p)
  \/ \E c \in CNames : RuntimeStartFails(c)
  \/ \E c \in CNames : StartupTimeout(c)
  \/ \E c \in CNames : HandleChaincodeStream(c)
  \/ \E c \in CNames : Stop(c)

\* Every caller's goroutine keeps running, handler.Execute returns once it has
\* an answer, a timeout or a cancelled context, and the startup timeout of a
\* launch in flight elapses unless the launch resolves otherwise.
Fairness ==
  /\ \A p \in Procs :
       /\ WF_vars(Launch(p))
       /\ WF_vars(LaunchInit(p))
       /\ WF_vars(execute(p))
       /\ WF_vars(handlerExecute(p))
       /\ WF_vars(LiveExecuteReturn(p))
  /\ \A c \in CNames : WF_vars(StartupTimeout(c))

LiveSpec == Init /\ [][LiveNext]_vars /\ Fairness

\* ------------------------------------------------------------ properties
\* Whether the error's chain of messages holds the message tok.
ErrHas(err, tok) == \E i \in 1..Len(err.msgs) : err.msgs[i] = tok

\* The caller returned because the Start it waited for failed or timed out.
StartErr(p) ==
  /\ pc[p] = "done"
  /\ \/ ErrHas(result[p].err, "error starting container")
     \/ ErrHas(result[p].err, "timeout expired while starting chaincode")

\* The caller's Launch / LaunchInit returned success.
Launched(p) ==
  \/ pc[p] \in {"launched", "execCall", "execWait"}
  \/ /\ pc[p] = "done"
     /\ ~StartErr(p)
     /\ ~ErrHas(result[p].err, "failed to get chaincode container info")
     /\ ~(call[p].kind = "invoke" /\ ErrHas(result[p].err, "chaincode spec is nil"))

NoStopYet == Cardinality({c \in CNames : registry[c] # NoHandler}) = nhandlers

\* The caller's Launch / LaunchInit has returned.
LaunchReturned(p) == pc[p] \in {"launched", "execCall", "execWait", "done"}

\* C2 as stated: of two sequential calls for the same canonical name U, U
\* not running at first, the first one's Start succeeding and no handler
\* deregistered since, the second returns success and triggers no Start.
C2_Idempotence ==
  \A p \in Procs : \A q \in earlier[p] :
    ( /\ cname(q) = cname(p)
      /\ earlier[q] = {}
      /\ trig[q] /\ Launched(q)
      /\ NoStopYet
      /\ LaunchReturned(p)
      /\ ~(call[p].kind = "invoke" /\ call[p].spec = NoName) )
    => (Launched(p) /\ ~trig[p])

\* C2 where the first call's container info names U itself: the case in
\* which Launch's success does mean that U runs.
C2_IdempotenceSameName ==
  \A p \in Procs : \A q \in earlier[p] :
    ( /\ cname(q) = cname(p)
      /\ target[q] = cname(q)
      /\ earlier[q] = {}
      /\ trig[q] /\ Launched(q)
      /\ NoStopYet
      /\ LaunchReturned(p)
      /\ ~(call[p].kind = "invoke" /\ call[p].spec = NoName) )
    => (Launched(p) /\ ~trig[p])

\* C3: a Start that failed or timed out leaves no handler and no launch in
\* flight under its canonical name c; while that holds, no caller whose
\* context names c gets success from Launch's first check, and a caller that
\* reaches the Launcher for c triggers a new Start and waits for it.
C3_NoResidue ==
  /\ [](\A c \in lastFailed : registry[c] = NoHandler /\ c \notin launching)
  /\ [][ \A p \in Procs :
           /\ (pc[p] = "idle" /\ pc'[p] # "idle" /\ (cname(p))' \in lastFailed)
                => pc'[p] # "launched"
           /\ (pc[p] = "launch" /\ pc'[p] \notin {"launch", "done"}
                 /\ target'[p] \in lastFailed)
                => /\ pc'[p] = "waitLaunch"
                   /\ trig'[p]
                   /\ starts'[target'[p]] = starts[target'[p]] + 1
       ]_vars

\* A caller whose call began after another's Start of the same canonical
\* name had failed has triggered the second Start of that name.
C3_Witness ==
  \E p \in Procs : \E q \in earlier[p] :
    /\ StartErr(q) /\ trig[q]
    /\ target[p] = target[q]
    /\ cname(p) = target[p]
    /\ trig[p]
    /\ starts[target[p]] = 2

\* handler.Execute answered the caller with a message and no error.
Answered(p) == pc[p] = "done" /\ ~sent[p].isNil /\ answer[p].err = NoErr

\* The bytes formatted into the error's text hold x.
TextContains(err, x) ==
  \E i \in 0..(Len(err.bytes) - Len(x)) : SubSeq(err.bytes, i + 1, i + Len(x)) = x

\* C4: a COMPLETED answer with a decodable payload is returned decoded and
\* without error, and its event, if any, carries the context's name and
\* transaction id.
C4_ExecuteSuccess ==
  \A p \in Procs :
    LET m == answer[p].msg
    IN (Answered(p) /\ ~m.isNil /\ m.Type = "COMPLETED" /\ Unmarshal(m.Payload).err = NoErr)
       => /\ result[p].err = NoErr
          /\ ~result[p].resp.isNil
          /\ result[p].resp = Unmarshal(m.Payload).res
          /\ (m.Payload = <<8, 200, 1>> => result[p].resp.Status = 200)
          /\ (m.Payload = <<>> => result[p].resp.Status = 0)
          /\ (m.ChaincodeEvent.isNil => result[p].event.isNil)
          /\ (~m.ChaincodeEvent.isNil =>
                /\ ~result[p].event.isNil
                /\ result[p].event.ChaincodeId = call[p].Name
                /\ result[p].event.TxId = call[p].TxID)

\* A COMPLETED answer whose event named another chaincode and transaction
\* was returned with status 200 and the event stamped.
C4_Witness ==
  \E p \in Procs :
    LET m == answer[p].msg
    IN /\ Answered(p) /\ ~m.isNil /\ m.Type = "COMPLETED"
       /\ m.Payload = <<8, 200, 1>>
       /\ ~m.ChaincodeEvent.isNil
       /\ m.ChaincodeEvent.ChaincodeId # call[p].Name
       /\ m.ChaincodeEvent.TxId # call[p].TxID
       /\ result[p].resp.Status = 200
       /\ result[p].event = Event(call[p].Name, call[p].TxID)

\* C5: an ERROR answer with payload X is returned as a nil response and an
\* error whose text holds X.
C5_RemoteFailure ==
  \A p \in Procs :
    LET m == answer[p].msg
    IN (Answered(p) /\ ~m.isNil /\ m.Type = "ERROR")
       => /\ result[p].resp.isNil
          /\ result[p].err # NoErr
          /\ ErrHas(result[p].err, "transaction returned with failure")
          /\ Len(result[p].err.bytes) >= Len(m.Payload)
          /\ TextContains(result[p].err, m.Payload)

\* An ERROR answer with a payload of bytes was returned as an error.
C5_Witness ==
  \E p \in Procs :
    LET m == answer[p].msg
    IN /\ Answered(p) /\ ~m.isNil /\ m.Type = "ERROR"
       /\ m.Payload = <<8, 200, 1>>
       /\ result[p].resp.isNil
       /\ result[p].err.bytes = <<8, 200, 1>>

\* C6: a nil message without error, or a message that is neither COMPLETED
\* nor ERROR, is returned as an error with nil response and nil event; and no
\* call returns a nil response together with a nil error.
C6_ProtocolViolation ==
  \A p \in Procs :
    LET m == answer[p].msg
    IN /\ (Answered(p) /\ (m.isNil \/ m.Type \notin {"COMPLETED", "ERROR"}))
          => /\ result[p].err # NoErr
             /\ result[p].resp.isNil
             /\ result[p].event.isNil
       /\ pc[p] = "done" => ~(result[p].resp.isNil /\ result[p].err = NoErr)

\* A GET_STATE answer carrying an event was returned as an error without
\* response or event.
C6_Witness ==
  \E p \in Procs :
    LET m == answer[p].msg
    IN /\ Answered(p) /\ ~m.isNil /\ m.Type = "GET_STATE"
       /\ ~m.ChaincodeEvent.isNil
       /\ ErrHas(result[p].err, "unexpected response type")
       /\ result[p].resp.isNil
       /\ result[p].event.isNil

\* The error of execute when the registry has no handler for the context.
DispatchErr(p) == pc[p] = "done" /\ ErrHas(result[p].err, "unable to invoke chaincode")

\* C7: when execute finds no handler under the context's canonical name, it
\* returns "unable to invoke chaincode" in that step: no handler.Execute is
\* called, no launch is triggered and the caller does not wait.
C7_DispatchAfterStop ==
  [][ \A p \in Procs :
        ( /\ pc[p] = "launched" /\ pc'[p] # "launched"
          /\ registry[cname(p)] = NoHandler
          /\ ~(call[p].kind = "init" /\ call[p].spec = NoName) )
        => /\ (DispatchErr(p))'
           /\ result'[p].resp.isNil
           /\ sent'[p] = sent[p] /\ sent'[p].isNil
           /\ held'[p] = NoHandler
           /\ starts' = starts
           /\ launching' = launching
    ]_vars

\* The caller's own Start registered a handler under its context's canonical
\* name, the handler was deregistered, and the call ended with the dispatch
\* error.
C7_Witness ==
  \E p \in Procs :
    /\ DispatchErr(p)
    /\ trig[p]
    /\ target[p] = cname(p)
    /\ starts[cname(p)] = 1
    /\ nhandlers = 1
    /\ registry[cname(p)] = NoHandler

\* C8 as stated: handler.Execute is only called on the handler that is
\* registered under the context's canonical name at the time of the call.
C8_NoUseAfterDeregistration ==
  [][ \A p \in Procs :
        (pc[p] = "execCall" /\ pc'[p] = "execWait") => registry[cname(p)] = held[p]
    ]_vars

\* C10 as stated: in the step in which Launch / LaunchInit returns success, a
\* handler is registered under the context's canonical name.
C10_LaunchPostcondition ==
  [][ \A p \in Procs :
        (pc[p] # "launched" /\ pc'[p] = "launched") => registry'[(cname(p))'] # NoHandler
    ]_vars

\* C10 for LaunchInit / for a Launch whose container info names the context's
\* canonical name.
C10_SameName ==
  [][ \A p \in Procs :
        (pc[p] # "launched" /\ pc'[p] = "launched"
           /\ (target'[p] = NoTarget \/ target'[p] = (cname(p))'))
        => registry'[(cname(p))'] # NoHandler
    ]_vars

\* C9: a caller whose context is cancelled while handler.Execute waits
\* returns, with an error that holds the cancellation, a nil response and no
\* message of the unit.
C9_Cancellation ==
  /\ [](\A p \in Procs : (cancelled[p] /\ pc[p] = "done") =>
           /\ result[p].err # NoErr
           /\ ErrHas(result[p].err, "context canceled")
           /\ result[p].resp.isNil
           /\ result[p].event.isNil
           /\ answer[p].msg.isNil)
  /\ \A p \in Procs : (cancelled[p] /\ pc[p] = "execWait") ~> (pc[p] = "done")

\* A caller returned after its context was cancelled in handler.Execute.
C9_Witness ==
  \E p \in Procs :
    /\ cancelled[p]
    /\ pc[p] = "done"
    /\ ErrHas(result[p].err, "context canceled")

LauncherCalled(p) == pc[p] = "launch" /\ pc'[p] \in {"waitLaunch", "launched"}

\* The step in which the caller's execute calls handler.Execute.
HandlerCalled(p) == pc[p] = "execCall" /\ pc'[p] = "execWait"

\* C12: within one call the Launcher is called at most once and
\* handler.Execute at most once; a step in which an error arises (from
\* Lifecycle, the launch, the lookup or handler.Execute) returns the call, and
\* a call that returned takes no further step.
C12_NoInternalRetry ==
  [][ \A p \in Procs :
        /\ LauncherCalled(p) => (target[p] = NoTarget /\ target'[p] # NoTarget)
        /\ (target[p] # NoTarget) => target'[p] = target[p]
        /\ HandlerCalled(p) => (sent[p].isNil /\ ~sent'[p].isNil /\ answer[p] = NoAnswer)
        /\ (~sent[p].isNil) => sent'[p] = sent[p]
        /\ (answer'[p].err # NoErr /\ answer[p] = NoAnswer) => pc'[p] = "done"
        /\ (result'[p].err # NoErr) => pc'[p] = "done"
        /\ (pc[p] = "done") =>
             (pc'[p] = "done" /\ result'[p] = result[p] /\ target'[p] = target[p]
                /\ sent'[p] = sent[p])
    ]_vars

\* A call whose launch was triggered and whose handler.Execute timed out has
\* returned the error, one Start triggered and one message sent.
C12_Witness ==
  \E p \in Procs :
    /\ pc[p] = "done"
    /\ trig[p] /\ starts[target[p]] = 1
    /\ ~sent[p].isNil
    /\ answer[p].err # NoErr
    /\ ErrHas(result[p].err, "error sending")

\* The latest Start of c registered a handler, and that handler has been
\* deregistered since.
Stopped(c) ==
  /\ starts[c] > 0
  /\ c \notin launching
  /\ c \notin lastFailed
  /\ registry[c] = NoHandler

\* C13: once the handler of a launched unit c is deregistered, a call whose
\* context names c gets no success from Launch's / LaunchInit's first check
\* and goes on to the launch, and a caller that reaches the Launcher for c
\* triggers a new Start and waits for it.
C13_NoCachedRunningState ==
  [][ \A p \in Procs :
        /\ (pc[p] = "idle" /\ pc'[p] # "idle" /\ Stopped((cname(p))'))
             => pc'[p] \in {"launch", "done"}
        /\ (pc[p] = "idle" /\ pc'[p] = "done")
             => (call'[p].kind = "invoke" /\ call'[p].spec = NoName)
        /\ (LauncherCalled(p) /\ Stopped(target'[p]))
             => /\ pc'[p] = "waitLaunch"
                /\ trig'[p]
                /\ target'[p] \in launching'
                /\ starts'[target'[p]] = starts[target'[p]] + 1
    ]_vars

\* A call began after an earlier call's Start of the same canonical name had
\* registered a handler and the handler was deregistered; it has triggered
\* the second Start of that name.
C13_Witness ==
  \E p \in Procs : \E q \in earlier[p] :
    /\ trig[q] /\ Launched(q)
    /\ target[q] = cname(q)
    /\ cname(p) = cname(q)
    /\ target[p] = cname(p)
    /\ trig[p]
    /\ nhandlers >= 1
    /\ starts[cname(p)] = 2

\* The step in which the caller's Launch calls Lifecycle.ChaincodeContainerInfo.
LifecycleCalled(p) == pc[p] = "launch" /\ call[p].kind = "invoke" /\ pc'[p] # "launch"

\* The caller's Launch / LaunchInit returned success from its first check.
FastPath(p) == pc[p] \in {"launched", "execCall", "execWait", "done"} /\ target[p] = NoTarget
                 /\ ~(call[p].kind = "invoke" /\ call[p].spec = NoName)

\* C14: when a handler is registered under the context's canonical name,
\* Launch / LaunchInit returns success in that step, with the registry, the
\* launches in flight and the Start counts unchanged, and the call never
\* calls Lifecycle or the Launcher afterwards.
C14_FastPathNoEffects ==
  [][ \A p \in Procs :
        /\ ( /\ pc[p] = "idle" /\ pc'[p] # "idle"
             /\ registry[(cname(p))'] # NoHandler
             /\ ~(call'[p].kind = "invoke" /\ call'[p].spec = NoName) )
           => /\ pc'[p] = "launched"
              /\ registry' = registry
              /\ launching' = launching
              /\ starts' = starts
              /\ nhandlers' = nhandlers
              /\ target'[p] = NoTarget
              /\ ~trig'[p]
              /\ result'[p] = NoResult
        /\ FastPath(p)
           => /\ ~LifecycleCalled(p)
              /\ ~LauncherCalled(p)
              /\ (FastPath(p))'
              /\ ~trig'[p]
    ]_vars

\* A call for a canonical name that an earlier call had started returned a
\* response without calling the Launcher; the name was started once.
C14_Witness ==
  \E p \in Procs : \E q \in earlier[p] :
    /\ trig[q] /\ target[q] = cname(p)
    /\ FastPath(p)
    /\ pc[p] = "done" /\ result[p].err = NoErr
    /\ starts[cname(p)] = 1
    /\ Cardinality({c \in CNames : starts[c] > 0}) = 1

\* The caller's Launch returned the error of Lifecycle.ChaincodeContainerInfo.
ResolutionErr(p) ==
  pc[p] = "done" /\ ErrHas(result[p].err, "failed to get chaincode container info")

\* C15: in Invoke, a failed resolution means the Launcher was never called,
\* and a failed resolution or launch means no handler was looked up and no
\* message passed to handler.Execute; the call returns an error and neither
\* response nor event.  A message is passed to handler.Execute only after
\* Launch returned success.
C15_StepOrdering ==
  \A p \in Procs :
    /\ (call[p].kind = "invoke" /\ ResolutionErr(p))
         => /\ target[p] = NoTarget
            /\ ~trig[p]
    /\ (call[p].kind = "invoke" /\ (ResolutionErr(p) \/ StartErr(p)))
         => /\ held[p] = NoHandler
            /\ sent[p].isNil
            /\ answer[p] = NoAnswer
            /\ result[p].err # NoErr
            /\ result[p].resp.isNil
            /\ result[p].event.isNil
    /\ (call[p].kind = "invoke" /\ (~sent[p].isNil \/ held[p] # NoHandler))
         => Launched(p)

\* One Invoke returned the resolution error with no Start triggered at all,
\* after another had returned the error of the Start it triggered.
C15_Witness ==
  \E p \in Procs : \E q \in earlier[p] :
    /\ call[p].kind = "invoke" /\ ResolutionErr(p)
    /\ call[q].kind = "invoke" /\ StartErr(q) /\ trig[q]
    /\ \A c \in CNames : starts[c] = (IF c = target[q] THEN 1 ELSE 0)

\* C16: LaunchInit never returns a resolution error, and the container info
\* it hands to the Launcher has the deployment spec's name and the context's
\* version.
C16_InitBypassesLifecycle ==
  /\ [](\A p \in Procs : call[p].kind = "init" =>
          /\ ~ResolutionErr(p)
          /\ target[p] \in {NoTarget, CanonicalName(call[p].spec, call[p].Version)})
  /\ [][ \A p \in Procs :
           (call[p].kind = "init" /\ pc[p] = "launch" /\ pc'[p] # "launch")
             => /\ LauncherCalled(p)
                /\ target'[p] = CanonicalName(call[p].spec, call[p].Version)
       ]_vars

\* An ExecuteInit call triggered the Start of its spec's chaincode in the
\* context's version and returned a response.
C16_Witness ==
  \E p \in Procs :
    /\ call[p].kind = "init"
    /\ call[p].spec # NoName
    /\ trig[p]
    /\ target[p] = CanonicalName(call[p].spec, call[p].Version)
    /\ starts[target[p]] = 1
    /\ pc[p] = "done" /\ result[p].err = NoErr

\* C17: a message passed to handler.Execute is INIT from InvokeInit and
\* TRANSACTION from Invoke and carries the context's transaction id and
\* channel id; a returned event carries the context's name and transaction
\* id, so two calls never return events of the same transaction id.
C17_RequestCorrelation ==
  /\ \A p \in Procs :
       /\ ~sent[p].isNil =>
            /\ sent[p].Type = (IF call[p].kind = "init" THEN "INIT" ELSE "TRANSACTION")
            /\ sent[p].Txid = call[p].TxID
            /\ sent[p].ChannelId = call[p].ChainID
            /\ sent[p].Txid = TxIDOf(p)
       /\ ~result[p].event.isNil =>
            /\ result[p].event.TxId = call[p].TxID
            /\ result[p].event.TxId = sent[p].Txid
            /\ result[p].event.ChaincodeId = call[p].Name
  /\ \A p, q \in Procs :
       (p # q /\ ~result[p].event.isNil /\ ~result[q].event.isNil)
         => result[p].event.TxId # result[q].event.TxId

\* While an ExecuteInit call waited in handler.Execute, an Execute call
\* whose unit had named the other call's transaction in its event returned
\* the event with its own transaction id.
C17_Witness ==
  \E p, q \in Procs :
    /\ p # q
    /\ call[p].kind = "invoke" /\ call[q].kind = "init"
    /\ pc[q] = "execWait" /\ sent[q].Type = "INIT"
    /\ pc[p] = "done" /\ sent[p].Type = "TRANSACTION"
    /\ answer[p].msg.ChaincodeEvent = Event("b", TxIDOf(q))
    /\ result[p].event = Event(call[p].Name, TxIDOf(p))
    /\ sent[p].ChannelId = ChainIDOf(p)

\* C18 as stated: a returned call has a response exactly when it has no
\* error, and no event when it has an error.
C18_ResultShape ==
  \A p \in Procs :
    pc[p] = "done" =>
      /\ (~result[p].resp.isNil) <=> (result[p].err = NoErr)
      /\ (result[p].err # NoErr) => result[p].event.isNil

\* C18 without the remote ERROR outcome: for every other outcome the
\* response is there exactly when the error is not, and an error comes with
\* no event.
C18_ShapeButRemoteError ==
  \A p \in Procs :
    pc[p] = "done" =>
      /\ (~result[p].resp.isNil) <=> (result[p].err = NoErr)
      /\ (result[p].err # NoErr /\ ~ErrHas(result[p].err, "transaction returned with failure"))
           => result[p].event.isNil

\* C19 as stated: a call whose spec has no chaincode spec returns "chaincode
\* spec is nil" and has not called the Launcher, triggered a Start or called
\* handler.Execute.
C19_InvalidRequestNoLaunch ==
  \A p \in Procs :
    (pc[p] # "idle" /\ call[p].spec = NoName) =>
      /\ target[p] = NoTarget
      /\ ~trig[p]
      /\ pc[p] # "waitLaunch"
      /\ sent[p].isNil
      /\ pc[p] = "done" => ErrHas(result[p].err, "chaincode spec is nil")

\* C19 for Invoke alone, whose nil check precedes Launch.
C19_InvokeNoLaunch ==
  \A p \in Procs :
    (pc[p] # "idle" /\ call[p].kind = "invoke" /\ call[p].spec = NoName) =>
      /\ target[p] = NoTarget
      /\ ~trig[p]
      /\ sent[p].isNil
      /\ pc[p] = "done" /\ ErrHas(result[p].err, "chaincode spec is nil")

====
